---- MODULE Spec2Model ----
(***************************************************************************)
(* A model of converter.py, the TeamCity Kotlin-DSL to YAML/JSON           *)
(* converter.                                                              *)
(*                                                                         *)
(* Text.  The source text is a sequence of lexemes (tokens); the text a    *)
(* token sequence stands for is its lexemes joined by single blanks.  A    *)
(* token is a record [k, v, ty]:                                           *)
(*   LB, RB            the characters { and }                              *)
(*   Obj(n, t)         the lexeme  object n : t({   whose last character   *)
(*                     is an opening brace (the pattern of line 81 ends    *)
(*                     with \(\{ and admits no blank there)                *)
(*   Field(k, v)       the lexeme  k = "v"  (k = true|false for enabled,   *)
(*                     k = """v""" for the triple-quoted fields)           *)
(*   Ref(f, id)        the lexeme  f(id)  (buildType, subProject, vcsRoot, *)
(*                     root)                                               *)
(*   Kw(w)             the bare word w (script, python, steps, ...)        *)
(* Positions are 1-based here and 0-based in Python.                       *)
(*                                                                         *)
(* Memory.  Every ref dict  {'id': ...}  is a cell of heap, named by its   *)
(* address; a list of refs is the sequence of its cells' addresses.  The   *)
(* program never changes a list after building it, so two dicts that hold  *)
(* the same list object hold the same sequence of addresses, and a change  *)
(* of a ref dict made through one is seen through the other.               *)
(***************************************************************************)
EXTENDS Integers, Sequences, FiniteSets, TLC

VARIABLES
    content,   \* the text being parsed (a sequence of tokens)
    pc,        \* the program's position
    start,     \* extract_balanced's argument start
    block,     \* extract_balanced's result
    steps,     \* parse_steps' result
    objects,   \* parse_kotlin_dsl's registry: declaration name -> record
    heap,      \* the ref dicts: address -> dict
    pos,       \* re.finditer's position in the scan of line 81
    root,      \* address of project['project'], 0 before it exists
    stack,     \* the activation records of map_project, innermost last
    heap0,     \* heap as it was when the registry was complete
    exists,    \* whether settings.kts exists
    config,    \* main's config: None or the document
    written,   \* the output file: None or [file, doc]
    printed    \* what main printed

vars == <<content, pc, start, block, steps, objects, heap, pos, root, stack,
          heap0, exists, config, written, printed>>

----------------------------------------------------------------------------
(* Bounds of the model. *)

\* longest text given to extract_balanced
MaxLen == 5
\* most chunks of a steps block
MaxChunks == 4
\* most chunks of a text given to the registry loop
MaxDecls == 4
\* most chunks in the bodies of a program given to tree assembly
MaxRefs == 3
\* most chunks of a text given to main
MaxMain == 5
\* the interpreter's recursion limit: most activations of map_project
RecursionLimit == 6

----------------------------------------------------------------------------
(* Tokens and Python values. *)

Tok(k, v, ty) == [k |-> k, v |-> v, ty |-> ty]
LB == Tok("{", "", "")
RB == Tok("}", "", "")
Obj(n, t) == Tok("object", n, t)
Field(k, v) == Tok(k, v, "")
Ref(f, id) == Tok(f, id, "")
Kw(w) == Tok(w, "", "")

\* the token is, or ends with, the character {
IsOpen(t) == t.k \in {"{", "object"}
IsClose(t) == t.k = "}"

\* Python's None
None == [none |-> TRUE]
\* the empty dict {}
EmptyDict == [f \in {} |-> f]
\* d[f] = val
Put(d, f, val) == [g \in DOMAIN d \cup {f} |-> IF g = f THEN val ELSE d[g]]

\* all sequences over S of length at most n
SeqsUpTo(S, n) == UNION {[1..m -> S] : m \in 0..n}

RECURSIVE Flatten(_)
\* the text made of the chunks of cs, in order
Flatten(cs) == IF cs = <<>> THEN <<>> ELSE Head(cs) \o Flatten(Tail(cs))

Min(S) == CHOOSE m \in S : \A n \in S : m <= n

----------------------------------------------------------------------------
(* extract_balanced, lines 14-23. *)

RECURSIVE ScanBalanced(_, _, _, _)
\* the loop of lines 16-22 from position i on, with level as it is before i
ScanBalanced(text, from, i, level) ==
    IF i > Len(text) THEN <<>>
    ELSE IF IsOpen(text[i]) THEN ScanBalanced(text, from, i + 1, level + 1)
    ELSE IF IsClose(text[i])
         THEN IF level - 1 = 0 THEN SubSeq(text, from, i)
              ELSE ScanBalanced(text, from, i + 1, level - 1)
    ELSE ScanBalanced(text, from, i + 1, level)

RECURSIVE ScanFirstClose(_, _, _)
ScanFirstClose(text, from, i) ==
    IF i > Len(text) THEN <<>>
    ELSE IF IsClose(text[i]) THEN SubSeq(text, from, i)
    ELSE ScanFirstClose(text, from, i + 1)

\* extract_balanced without the level counter: stops at the first }
extract_balanced_flat(text, from) == ScanFirstClose(text, from, from)

extract_balanced(text, from) == ScanBalanced(text, from, from, 0)

\* block[1:-1]
Inner(b) == SubSeq(b, 2, Len(b) - 1)

----------------------------------------------------------------------------
(* Specification SpecExtract: extract_balanced on every short text.        *)

ExtractAlphabet == {LB, RB, Kw("x")}

IdleOthers ==
    /\ steps = <<>>
    /\ objects = EmptyDict
    /\ heap = <<>>
    /\ pos = 0
    /\ root = 0
    /\ stack = <<>>
    /\ heap0 = <<>>
    /\ exists = FALSE
    /\ config = None
    /\ written = None
    /\ printed = <<>>

InitExtract ==
    /\ content \in SeqsUpTo(ExtractAlphabet, MaxLen)
    /\ start \in 1..MaxLen
    /\ start <= Len(content)
    /\ block = <<>>
    /\ pc = "call"
    /\ IdleOthers

CallExtract ==
    /\ pc = "call"
    /\ block' = extract_balanced(content, start)
    /\ pc' = "returned"
    /\ UNCHANGED <<content, start, steps, objects, heap, pos, root, stack,
                   heap0, exists, config, written, printed>>

NextExtract == CallExtract

SpecExtract == InitExtract /\ [][NextExtract]_vars

\* number of opening minus number of closing braces in text[from..i]
Depth(text, from, i) ==
    Cardinality({j \in from..i : IsOpen(text[j])})
    - Cardinality({j \in from..i : IsClose(text[j])})

\* the positions at which the depth counted from `from` is zero
Closings(text, from) == {i \in from..Len(text) : Depth(text, from, i) = 0}

\* C1: when text[start] is an opening brace, extract_balanced returns the
\* text from start through the first position at which the depth is back to
\* zero (so it begins with {, ends with }, is balanced and has positive depth
\* at every proper prefix), and the empty string when there is no such
\* position.
C1_ExtractBalanced ==
    (pc = "returned" /\ IsOpen(content[start])) =>
        LET cl == Closings(content, start) IN
        IF cl # {}
        THEN /\ block = SubSeq(content, start, Min(cl))
             /\ IsOpen(block[1])
             /\ IsClose(block[Len(block)])
             /\ Depth(block, 1, Len(block)) = 0
             /\ \A i \in 1..(Len(block) - 1) : Depth(block, 1, i) > 0
        ELSE block = <<>>

\* a block with a nested block in it was extracted, with text left after it
C1_Witness ==
    /\ pc = "returned"
    /\ IsOpen(content[start])
    /\ Len(block) >= 4
    /\ \E i \in 2..(Len(block) - 1) : IsOpen(block[i])
    /\ Len(block) < Len(content) - start + 1

----------------------------------------------------------------------------
(* The leaf extractors: re.search and re.findall on one fixed pattern.     *)

\* LET x == e IN F(x), with e written and evaluated once
Bind(e, F(_)) == CHOOSE r \in {F(x) : x \in {e}} : TRUE

\* the position of the first token of text that satisfies Test, 0 if none
FirstPos(text, Test(_)) ==
    IF \E i \in 1..Len(text) : Test(text[i])
    THEN Min({i \in 1..Len(text) : Test(text[i])})
    ELSE 0

\* k\s*=\s*"([^"]+)" : the value is not empty
Quoted(t, k) == t.k = k /\ t.v # ""

\* re.search(k\s*=\s*"([^"]+)", text) for each k of ks: the dict of the
\* fields whose pattern occurs in text, each with its first occurrence's value
QuotedOf(text, ks) ==
    [k \in {k2 \in ks : \E i \in 1..Len(text) : Quoted(text[i], k2)} |->
        text[Min({i \in 1..Len(text) : Quoted(text[i], k)})].v]

\* str.strip() on the triple-quoted values of the model
Strip(s) ==
    CASE s = " echo hi " -> "echo hi"
      [] s = " " -> ""
      [] OTHER -> s

\* re.search(k\s*=\s*"""(.*?)""", text), stored stripped under field f
TripleOf(text, k, f) ==
    IF \E i \in 1..Len(text) : text[i].k = k
    THEN f :> Strip(text[Min({i \in 1..Len(text) : text[i].k = k})].v)
    ELSE EmptyDict

IsEnabled(t) == t.k = "enabled" /\ t.v \in {"true", "false"}

\* re.search(enabled\s*=\s*(true|false), text), stored as a bool
EnabledOf(text) ==
    IF \E i \in 1..Len(text) : IsEnabled(text[i])
    THEN [enabled |-> text[Min({i \in 1..Len(text) : IsEnabled(text[i])})].v = "true"]
    ELSE EmptyDict

\* the token ends with the word w: script\s*\{ also matches the end of
\* `command = script {` and of `scriptMode = script {`
EndsWith(t, w) ==
    \/ t.k = w
    \/ w = "script" /\ t.k \in {"command", "scriptMode"}

\* the positions i at which w\s*\{ matches: word at i, { at i + 1
Openers(text, w) ==
    {i \in 1..(Len(text) - 1) : EndsWith(text[i], w) /\ text[i + 1] = LB}

\* the matches of w\s*\{[^}]*\} at or after position `from`: an opener with a
\* closing brace somewhere after its {
GroupStarts(text, w, from) ==
    {i \in Openers(text, w) : i >= from /\ \E j \in (i + 2)..Len(text) : IsClose(text[j])}

\* group 1 of the match that starts at i: up to the first closing brace
GroupAt(text, i) ==
    SubSeq(text, i + 2, Min({j \in (i + 2)..Len(text) : IsClose(text[j])}) - 1)

\* re.search(w\s*\{([^}]*)\}, text): <<group 1>> for the first match, <<>>
\* when there is none.  Joined by blanks, { and } are never adjacent, so
\* [^}]+ and [^}]* match the same token texts.
Group(text, w) ==
    IF GroupStarts(text, w, 1) = {} THEN <<>>
    ELSE <<GroupAt(text, Min(GroupStarts(text, w, 1)))>>

RECURSIVE Groups(_, _, _)
\* re.findall(w\s*\{([^}]*)\}, text) from position `from` on
Groups(text, w, from) ==
    IF GroupStarts(text, w, from) = {} THEN <<>>
    ELSE Bind(Min(GroupStarts(text, w, from)),
              LAMBDA i : <<GroupAt(text, i)>>
                         \o Groups(text, w, i + 3 + Len(GroupAt(text, i))))

\* re.findall(f\("([^"]+)"\s*,\s*"([^"]+)", text) as records of type ty, the
\* first group under keyName
Pairs(text, f, ty, keyName) ==
    Bind(SelectSeq(text, LAMBDA t : t.k = f /\ t.v # "" /\ t.ty # ""),
         LAMBDA hits : [i \in 1..Len(hits) |->
                           ("type" :> ty) @@ (keyName :> hits[i].v)
                           @@ ("value" :> hits[i].ty)])

----------------------------------------------------------------------------
(* The block decoders. *)

\* parse_params, lines 350-368
parse_params(text) ==
    Pairs(text, "param", "param", "name") \o Pairs(text, "select", "select", "name")
    \o Pairs(text, "checkbox", "checkbox", "name") \o Pairs(text, "text", "text", "name")

\* the conditions of a text, lines 235-242 and 285-287
Conditions(text, kinds) ==
    (IF "equals" \in kinds THEN Pairs(text, "equals", "equals", "property") ELSE <<>>)
    \o Pairs(text, "contains", "contains", "property")

\* the conditions block of a step, lines 231-244 and 281-289
ConditionsOf(text, kinds) ==
    Bind(Group(text, "conditions"),
         LAMBDA g : IF g = <<>> THEN EmptyDict
                    ELSE Bind(Conditions(g[1], kinds),
                              LAMBDA c : IF c = <<>> THEN EmptyDict
                                         ELSE [conditions |-> c]))

\* parse_script_step, lines 213-245
parse_script_step(text) ==
    [type |-> "script"] @@ QuotedOf(text, {"name", "id", "workingDir"})
    @@ EnabledOf(text) @@ TripleOf(text, "scriptContent", "scriptContent")
    @@ ConditionsOf(text, {"equals", "contains"})

\* parse_python_step, lines 247-261
parse_python_step(text) ==
    [type |-> "python"] @@ QuotedOf(text, {"name", "id"})
    @@ Bind(Group(text, "command"),
            LAMBDA g : IF g = <<>> THEN EmptyDict
                       ELSE TripleOf(g[1], "content", "scriptContent"))

\* lines 271-279: the content of the scriptMode block
ScriptModeOf(text) ==
    IF Openers(text, "scriptMode") = {} THEN EmptyDict
    ELSE Bind(extract_balanced(text, Min(Openers(text, "scriptMode")) + 1),
              LAMBDA b : IF b = <<>> THEN EmptyDict
                         ELSE TripleOf(Inner(b), "content", "scriptContent"))

\* parse_powershell_step, lines 263-290
parse_powershell_step(text) ==
    [type |-> "powershell"] @@ QuotedOf(text, {"name", "id"})
    @@ ScriptModeOf(text) @@ ConditionsOf(text, {"contains"})

\* parse_general_step, lines 292-314
parse_general_step(text) ==
    QuotedOf(text, {"name", "id", "type", "executionMode"}) @@ EnabledOf(text)
    @@ Bind(Group(text, "params"),
            LAMBDA g : IF g = <<>> THEN EmptyDict ELSE [params |-> parse_params(g[1])])

\* parse_kotlin_step, lines 316-330
parse_kotlin_step(text) ==
    [type |-> "kotlinScript"] @@ QuotedOf(text, {"name", "id"})
    @@ EnabledOf(text) @@ TripleOf(text, "content", "content")

\* the decoder of the loop over pattern w in parse_steps
DecodeStep(w, text) ==
    CASE w = "script" -> parse_script_step(text)
      [] w = "python" -> parse_python_step(text)
      [] w = "kotlinScript" -> parse_kotlin_step(text)
      [] w = "powerShell" -> parse_powershell_step(text)
      [] w = "step" -> parse_general_step(text)

\* the body of a for loop of parse_steps for the match at position i: the
\* step to append, none when the block is not balanced
StepAt(text, w, i) ==
    Bind(extract_balanced(text, i + 1),
         LAMBDA b : IF b = <<>> THEN <<>> ELSE <<DecodeStep(w, Inner(b))>>)

RECURSIVE StepsLoop(_, _, _)
\* one for loop of parse_steps: the matches of w\s*\{ from position `from`
\* on, in text order
StepsLoop(text, w, from) ==
    IF \A i \in Openers(text, w) : i < from THEN <<>>
    ELSE Bind(Min({i \in Openers(text, w) : i >= from}),
              LAMBDA i : StepAt(text, w, i) \o StepsLoop(text, w, i + 2))

\* the steps of the loops over the patterns of ws, in that order
RECURSIVE StepsLoops(_, _)
StepsLoops(text, ws) ==
    IF ws = <<>> THEN <<>>
    ELSE StepsLoop(text, Head(ws), 1) \o StepsLoops(text, Tail(ws))

\* parse_steps with the loops in the order of the variants of the data model
parse_steps_swapped(text) ==
    StepsLoops(text, <<"script", "python", "powerShell", "kotlinScript", "step">>)

\* parse_steps, lines 169-211
parse_steps(text) ==
    StepsLoops(text, <<"script", "python", "kotlinScript", "powerShell", "step">>)

----------------------------------------------------------------------------
(* The declaration decoders. *)

\* parse_triggers, lines 332-341: enabled is stored as the string of the bool
parse_triggers(text) ==
    Bind(Groups(text, "vcs", 1),
         LAMBDA gs : [i \in 1..Len(gs) |->
                         [type |-> "vcs"]
                         @@ (IF \E p \in 1..Len(gs[i]) : IsEnabled(gs[i][p])
                             THEN [enabled |-> gs[i][FirstPos(gs[i], IsEnabled)].v]
                             ELSE EmptyDict)])

\* parse_features, lines 343-348
parse_features(text) ==
    [i \in 1..Len(Groups(text, "perfmon", 1)) |-> [type |-> "perfmon"]]

\* parse_vcs, lines 370-375
parse_vcs(text) == QuotedOf(text, {"root"})

\* lines 129-136: the steps of a build type
StepsOf(text) ==
    IF Openers(text, "steps") = {} THEN EmptyDict
    ELSE Bind(extract_balanced(text, Min(Openers(text, "steps")) + 1),
              LAMBDA b : IF b = <<>> THEN EmptyDict
                         ELSE [steps |-> parse_steps(Inner(b))])

\* lines 138-160: the triggers, features, params and vcs blocks
BlocksOf(text) ==
    Bind(Group(text, "triggers"),
         LAMBDA g : IF g = <<>> THEN EmptyDict ELSE [triggers |-> parse_triggers(g[1])])
    @@ Bind(Group(text, "features"),
         LAMBDA g : IF g = <<>> THEN EmptyDict ELSE [features |-> parse_features(g[1])])
    @@ Bind(Group(text, "params"),
         LAMBDA g : IF g = <<>> THEN EmptyDict ELSE [params |-> parse_params(g[1])])
    @@ Bind(Group(text, "vcs"),
         LAMBDA g : IF g = <<>> THEN EmptyDict ELSE [vcs |-> parse_vcs(g[1])])

\* lines 162-165
ArtifactRulesOf(text) ==
    Bind(QuotedOf(text, {"artifactRules"}),
         LAMBDA d : [k \in DOMAIN d |-> Strip(d[k])])

\* parse_build_type, lines 121-167
parse_build_type(text) ==
    QuotedOf(text, {"name"}) @@ StepsOf(text) @@ BlocksOf(text) @@ ArtifactRulesOf(text)

\* parse_vcs_root, lines 396-407
parse_vcs_root(text) == QuotedOf(text, {"name", "url", "branch"})

\* re.findall(f\(([^)]+)\), text), each stripped: the ids of the refs f(id)
RefIds(text, f) ==
    Bind(SelectSeq(text, LAMBDA t : Quoted(t, f)),
         LAMBDA hits : [i \in 1..Len(hits) |-> hits[i].v])

\* a list [{'id': ...}, ...] of n new ref dicts, the first at address a + 1,
\* as field f; the field is not set when the list is empty (lines 57, 62,
\* 67, 384, 388, 392)
RefList(f, a, n) == IF n = 0 THEN EmptyDict ELSE f :> [i \in 1..n |-> a + i]

\* the ref dicts [{'id': x.strip()} for x in ids], lines 58, 63, 68, 385,
\* 389, 393
NewRefs(ids) == [i \in 1..Len(ids) |-> [id |-> ids[i]]]

\* the three ref lists of a project body, the first new ref dict at a + 1
RefListsOf(text, a) ==
    RefList("buildTypes", a, Len(RefIds(text, "buildType")))
    @@ RefList("subProjects", a + Len(RefIds(text, "buildType")),
               Len(RefIds(text, "subProject")))
    @@ RefList("vcsRoots",
               a + Len(RefIds(text, "buildType")) + Len(RefIds(text, "subProject")),
               Len(RefIds(text, "vcsRoot")))

\* the ref dicts of those lists
RefsOf(text) ==
    NewRefs(RefIds(text, "buildType")) \o NewRefs(RefIds(text, "subProject"))
    \o NewRefs(RefIds(text, "vcsRoot"))

\* parse_project, lines 377-394, with heap h: [d: the record, h: the heap]
parse_project(text, h) ==
    [d |-> QuotedOf(text, {"name"}) @@ RefListsOf(text, Len(h)),
     h |-> h \o RefsOf(text)]

----------------------------------------------------------------------------
(* The registry of parse_kotlin_dsl, lines 79-95. *)

\* the first match of the pattern of line 81 at or after position `from`,
\* 0 when there is none
NextObject(text, from) ==
    IF \E i \in from..Len(text) : text[i].k = "object"
    THEN Min({i \in from..Len(text) : text[i].k = "object"})
    ELSE 0

\* lines 88-95: the registry and the heap after the declaration name : ty
\* with the given body is decoded
Dispatch(objs, h, name, ty, body) ==
    IF ty \in {"BuildType", "Template"}
    THEN [objects |-> Put(objs, name, parse_build_type(body)), heap |-> h]
    ELSE IF ty = "Project"
    THEN Bind(parse_project(body, h),
              LAMBDA r : [objects |-> Put(objs, name, r.d), heap |-> r.h])
    ELSE IF ty = "GitVcsRoot"
    THEN [objects |-> Put(objs, name, parse_vcs_root(body)), heap |-> h]
    ELSE [objects |-> objs, heap |-> h]

\* lines 82-95 with the test of line 86 left out: an unterminated
\* declaration is decoded from the empty text
RegisterUnchecked(objs, h, text, i) ==
    Bind(extract_balanced(text, i),
         LAMBDA b : Dispatch(objs, h, text[i].v, text[i].ty, Inner(b)))

\* lines 82-95 for the match at position i: [objects, heap] afterwards
RegisterObject(objs, h, text, i) ==
    Bind(extract_balanced(text, i),
         LAMBDA b : IF b = <<>> THEN [objects |-> objs, heap |-> h]
                    ELSE Dispatch(objs, h, text[i].v, text[i].ty, Inner(b)))

RECURSIVE BuildObjects(_, _, _, _)
\* the whole loop of lines 81-95 from position `from` on
BuildObjects(objs, h, text, from) ==
    IF NextObject(text, from) = 0 THEN [objects |-> objs, heap |-> h]
    ELSE Bind(RegisterObject(objs, h, text, NextObject(text, from)),
              LAMBDA r : BuildObjects(r.objects, r.heap, text,
                                      NextObject(text, from) + 1))

----------------------------------------------------------------------------
(* The root project of parse_kotlin_dsl, lines 29-77. *)

\* lines 29-31
VersionOf(text) ==
    IF \E i \in 1..Len(text) : Quoted(text[i], "version")
    THEN text[Min({i \in 1..Len(text) : Quoted(text[i], "version")})].v
    ELSE "2.1"

\* lines 33-39: the root block, empty when there is no project { or when its
\* brace is not closed
RootBlock(text) ==
    IF Openers(text, "project") = {} THEN <<>>
    ELSE extract_balanced(text, Min(Openers(text, "project")) + 1)

\* lines 70-77: features is set when a githubConnection block lies in the
\* text of the features block up to its first closing brace
RootFeaturesOf(body) ==
    Bind(Group(body, "features"),
         LAMBDA fg : IF fg = <<>> \/ Group(fg[1], "githubConnection") = <<>>
                     THEN EmptyDict
                     ELSE [features |-> <<[type |-> "githubConnection"]>>])

\* lines 45-77: the dict project['project'] of the root body, its new ref
\* dicts from address a + 1 on
RootDict(body, a) ==
    QuotedOf(body, {"description"}) @@ RefListsOf(body, a) @@ RootFeaturesOf(body)

\* lines 29-77 with the test of line 40 left out: an unterminated root block
\* is decoded from the empty text
ParseRootUnchecked(text, h) ==
    Bind(RootBlock(text),
         LAMBDA b : [ok |-> TRUE, version |-> VersionOf(text),
                     heap |-> (h \o RefsOf(Inner(b))) \o <<RootDict(Inner(b), Len(h))>>,
                     root |-> Len(h) + Len(RefsOf(Inner(b))) + 1])

\* lines 29-77 with heap h: [ok |-> FALSE] when line 36 or 41 returns None,
\* else the version, the heap with the root's ref dicts and then the root
\* dict project['project'], and the root dict's address
ParseRoot(text, h) ==
    Bind(RootBlock(text),
         LAMBDA b : IF b = <<>> THEN [ok |-> FALSE]
                    ELSE [ok |-> TRUE, version |-> VersionOf(text),
                          heap |-> (h \o RefsOf(Inner(b)))
                                   \o <<RootDict(Inner(b), Len(h))>>,
                          root |-> Len(h) + Len(RefsOf(Inner(b))) + 1])

----------------------------------------------------------------------------
(* map_project, lines 97-118.  An activation record is                     *)
(* [proj, loop, list, idx]: the dict proj, the for loop it is in (1, 2, 3   *)
(* for buildTypes, subProjects, vcsRoots), the list that loop iterates,    *)
(* taken when the loop began, and the position of the next element.        *)

LoopField == <<"buildTypes", "subProjects", "vcsRoots">>

\* the list a for loop over field f of dict d iterates: none when the if of
\* line 98, 104 or 111 fails
LoopList(d, f) == IF f \in DOMAIN d THEN d[f] ELSE <<>>

\* the activation record of a call map_project(a)
Call(h, a) ==
    [proj |-> a, loop |-> 1, list |-> LoopList(h[a], LoopField[1]), idx |-> 1]

\* dict.update replaced by an assignment: the ref dict becomes the record
UpdateReplace(d, o) == o

\* d.update(o)
Update(d, o) == [f \in DOMAIN d \cup DOMAIN o |-> IF f \in DOMAIN o THEN o[f] ELSE d[f]]

\* the merge that also marks a ref whose id is not registered
MergeMarking(h, a, objs) ==
    IF h[a].id \in DOMAIN objs
    THEN [h EXCEPT ![a] = Update(h[a], objs[h[a].id])]
    ELSE [h EXCEPT ![a] = Put(h[a], "name", "unresolved")]

\* lines 100-103, 106-109, 113-116: the heap after the ref dict at address a
\* is merged with its registered record, if it has one (a registered record
\* is a dict, never None)
Merge(h, a, objs) ==
    IF h[a].id \in DOMAIN objs
    THEN [h EXCEPT ![a] = Update(h[a], objs[h[a].id])]
    ELSE h

Top(st) == st[Len(st)]
\* the ref the innermost loop is at
Cur(st) == st[Len(st)].list[st[Len(st)].idx]
Advance(st) == [st EXCEPT ![Len(st)].idx = @ + 1]

\* the state after one step: the heap, the stack and the position
After(h, st, p) == [heap |-> h, stack |-> st, pc |-> p]

\* one iteration of the loop of line 99 or of line 112
StepRef(h, st, objs) == After(Merge(h, Cur(st), objs), Advance(st), "map")

\* line 110 left out: a merged sub-project is not descended into
StepSubProjectFlat(h, st, objs) == After(Merge(h, Cur(st), objs), Advance(st), "map")

\* line 110 calling map_project(proj): the recursion is on the enclosing dict
StepSubProjectSelf(h, st, objs) ==
    IF h[Cur(st)].id \notin DOMAIN objs THEN After(h, Advance(st), "map")
    ELSE IF Len(st) >= RecursionLimit
    THEN After(Merge(h, Cur(st), objs), Advance(st), "RecursionError")
    ELSE After(Merge(h, Cur(st), objs),
               Append(Advance(st), Call(Merge(h, Cur(st), objs), Top(st).proj)), "map")

\* one iteration of the loop of line 105: the merge, and for a registered id
\* the call of line 110, which raises RecursionError at the interpreter's
\* recursion limit
StepSubProject(h, st, objs) ==
    IF h[Cur(st)].id \notin DOMAIN objs THEN After(h, Advance(st), "map")
    ELSE IF Len(st) >= RecursionLimit
    THEN After(Merge(h, Cur(st), objs), Advance(st), "RecursionError")
    ELSE After(Merge(h, Cur(st), objs),
               Append(Advance(st), Call(Merge(h, Cur(st), objs), Cur(st))), "map")

\* a for loop is over: the next one begins (lines 104, 111)
StepNextLoop(h, st) ==
    After(h, [st EXCEPT ![Len(st)] =
                 [proj |-> @.proj, loop |-> @.loop + 1,
                  list |-> LoopList(h[@.proj], LoopField[@.loop + 1]), idx |-> 1]],
          "map")

\* the last loop is over: map_project returns
StepReturn(h, st) ==
    After(h, SubSeq(st, 1, Len(st) - 1), IF Len(st) = 1 THEN "returned" ELSE "map")

InLoop(st, n) == Top(st).loop = n /\ Top(st).idx <= Len(Top(st).list)
LoopOver(st) == Top(st).idx > Len(Top(st).list)

\* the next step of map_project
MapStep(h, st, objs) ==
    IF InLoop(st, 2) THEN StepSubProject(h, st, objs)
    ELSE IF ~LoopOver(st) THEN StepRef(h, st, objs)
    ELSE IF Top(st).loop < 3 THEN StepNextLoop(h, st)
    ELSE StepReturn(h, st)

RECURSIVE RunMap(_, _, _)
\* line 118: map_project run to its return or its exception
RunMap(h, st, objs) ==
    Bind(MapStep(h, st, objs),
         LAMBDA s : IF s.pc = "map" THEN RunMap(s.heap, s.stack, objs) ELSE s)

----------------------------------------------------------------------------
(* Specification SpecSteps: parse_steps on every short steps block.  The   *)
(* block is made of chunks: the opening of a step of each kind, a closing  *)
(* brace, and fields.                                                      *)

StepWords == {"script", "python", "kotlinScript", "powerShell", "step"}

StepChunks ==
    {<<Kw(w), LB>> : w \in StepWords}
    \cup {<<RB>>, <<Field("name", "Run")>>, <<Field("type", "dotnet")>>}

InitSteps ==
    /\ \E cs \in SeqsUpTo(StepChunks, MaxChunks) : content = Flatten(cs)
    /\ pc = "call"
    /\ start = 0
    /\ block = <<>>
    /\ IdleOthers

CallParseSteps ==
    /\ pc = "call"
    /\ steps' = parse_steps(content)
    /\ pc' = "returned"
    /\ UNCHANGED <<content, start, block, objects, heap, pos, root, stack,
                   heap0, exists, config, written, printed>>

NextSteps == CallParseSteps

SpecSteps == InitSteps /\ [][NextSteps]_vars

\* the kind of a step record: its type when a typed decoder made it, generic
\* otherwise (the texts of SpecSteps give a generic step no type of these)
KindOf(s) ==
    IF "type" \in DOMAIN s /\ s.type \in {"script", "python", "kotlinScript", "powershell"}
    THEN s.type ELSE "generic"

\* the matches of the five patterns whose block is balanced
BalancedMatches(text) ==
    {<<w, i>> \in StepWords \X (1..Len(text)) :
        i \in Openers(text, w) /\ Closings(text, i + 1) # {}}

Grouped(order) ==
    \A i, j \in 1..Len(steps) :
        i < j => \E a, b \in 1..Len(order) :
                    a <= b /\ order[a] = KindOf(steps[i]) /\ order[b] = KindOf(steps[j])

\* C3 as stated: the list is grouped by kind in the order script, python,
\* powershell, kotlinScript, generic, and holds one record per pattern match
\* whose block is balanced.
C3_AsStated ==
    pc = "returned" =>
        /\ Grouped(<<"script", "python", "powershell", "kotlinScript", "generic">>)
        /\ Len(steps) = Cardinality(BalancedMatches(content))

\* C3 amended: the list is grouped by kind in the order script, python,
\* kotlinScript, powershell, generic, whatever the order in the source, and
\* holds one record per pattern match whose block is balanced.
C3_CodeOrder ==
    pc = "returned" =>
        /\ Grouped(<<"script", "python", "kotlinScript", "powershell", "generic">>)
        /\ Len(steps) = Cardinality(BalancedMatches(content))

\* a python step written before a script step comes out after it
C3_Witness ==
    /\ pc = "returned"
    /\ Len(steps) = 2
    /\ KindOf(steps[1]) = "script"
    /\ KindOf(steps[2]) = "python"
    /\ Min(Openers(content, "python")) < Min(Openers(content, "script"))

----------------------------------------------------------------------------
(* Specification SpecRegistry: the registry loop on every short text, one   *)
(* step per declaration found.                                             *)

RegistryChunks ==
    {<<Obj("A", "BuildType")>>, <<Obj("B", "Project")>>, <<Obj("A", "GitVcsRoot")>>,
     <<Obj("B", "Template")>>, <<Obj("C", "Settings")>>,
     <<RB>>, <<Field("name", "n")>>, <<Ref("buildType", "A")>>}

InitRegistry ==
    /\ \E cs \in SeqsUpTo(RegistryChunks, MaxDecls) : content = Flatten(cs)
    /\ pc = "scan"
    /\ pos = 1
    /\ objects = EmptyDict
    /\ heap = <<>>
    /\ start = 0
    /\ block = <<>>
    /\ steps = <<>>
    /\ root = 0
    /\ stack = <<>>
    /\ heap0 = <<>>
    /\ exists = TRUE
    /\ config = None
    /\ written = None
    /\ printed = <<>>

\* one iteration of the loop of line 81
ScanObject ==
    /\ pc = "scan"
    /\ NextObject(content, pos) # 0
    /\ \E r \in {RegisterObject(objects, heap, content, NextObject(content, pos))} :
          /\ objects' = r.objects
          /\ heap' = r.heap
    /\ pos' = NextObject(content, pos) + 1
    /\ UNCHANGED <<content, pc, start, block, steps, root, stack, heap0,
                   exists, config, written, printed>>

\* the loop of line 81 ends
ScanEnd ==
    /\ pc = "scan"
    /\ NextObject(content, pos) = 0
    /\ pc' = "scanned"
    /\ UNCHANGED <<content, start, block, steps, objects, heap, pos, root,
                   stack, heap0, exists, config, written, printed>>

NextRegistry == ScanObject \/ ScanEnd

SpecRegistry == InitRegistry /\ [][NextRegistry]_vars

KnownTypes == {"BuildType", "Project", "GitVcsRoot", "Template"}

\* the declarations of the text whose brace is closed
Terminated(text) ==
    {i \in 1..Len(text) : text[i].k = "object" /\ Closings(text, i) # {}}

\* the scan is at a declaration whose brace is never closed
AtUnterminated ==
    /\ pc = "scan"
    /\ NextObject(content, pos) # 0
    /\ Closings(content, NextObject(content, pos)) = {}

\* C5: a declaration whose body cannot be extracted leaves the registry as it
\* is and the scan goes on after it; when the scan is over the registry's keys
\* are the names of the declarations of a known kind whose body was extracted.
C5_SkipUnterminated ==
    /\ [][AtUnterminated =>
            /\ objects' = objects
            /\ pc' = "scan"
            /\ pos' = NextObject(content, pos) + 1]_vars
    /\ [](pc = "scanned" =>
            DOMAIN objects =
                {content[i].v : i \in {j \in Terminated(content) :
                                          content[j].ty \in KnownTypes}})

\* an unterminated declaration of a known kind was passed over, and a later
\* declaration was registered
C5_Witness ==
    /\ pc = "scanned"
    /\ \E i, j \in 1..Len(content) :
          /\ i < j
          /\ content[i].k = "object" /\ content[i].ty \in KnownTypes
          /\ i \notin Terminated(content)
          /\ j \in Terminated(content)
          /\ content[j].v \in DOMAIN objects
          /\ content[i].v \notin DOMAIN objects

----------------------------------------------------------------------------
(* Specification Spec: tree assembly (line 118) step by step, from the      *)
(* state parse_kotlin_dsl is in at line 97 for the text                    *)
(*    project { r }  object A : Project({ a })  object B : t({ b })        *)
(* with r, a, b made of at most MaxRefs chunks in all.                     *)

BodyChunks ==
    {<<Ref("subProject", "A")>>, <<Ref("subProject", "B")>>, <<Ref("subProject", "U")>>,
     <<Ref("buildType", "B")>>, <<Ref("buildType", "U")>>,
     <<Ref("vcsRoot", "B")>>,
     <<Field("name", "n"), Field("id", "x")>>}

ProgramText(r, a, b, t) ==
    <<Kw("project"), LB>> \o r \o <<RB>>
    \o <<Obj("A", "Project")>> \o a \o <<RB>>
    \o <<Obj("B", t)>> \o b \o <<RB>>

\* the state at line 97
AtLine97(text) ==
    \E r \in {ParseRoot(text, <<>>)} :
    \E o \in {BuildObjects(EmptyDict, r.heap, text, 1)} :
       /\ content = text
       /\ objects = o.objects
       /\ heap = o.heap
       /\ heap0 = o.heap
       /\ root = r.root
       /\ config = None
       /\ stack = <<Call(o.heap, r.root)>>
       /\ pc = "map"

Init ==
    /\ \E cs \in SeqsUpTo(BodyChunks, MaxRefs) :
       \E i \in 0..Len(cs) : \E j \in i..Len(cs) :
       \E t \in {"Project", "BuildType"} :
       \E text \in {ProgramText(Flatten(SubSeq(cs, 1, i)), Flatten(SubSeq(cs, i + 1, j)),
                                Flatten(SubSeq(cs, j + 1, Len(cs))), t)} :
          AtLine97(text)
    /\ pos = 0
    /\ start = 0
    /\ block = <<>>
    /\ steps = <<>>
    /\ exists = TRUE
    /\ written = None
    /\ printed = <<>>

Take(s) ==
    /\ heap' = s.heap
    /\ stack' = s.stack
    /\ pc' = s.pc
    /\ UNCHANGED <<content, start, block, steps, objects, pos, root, heap0,
                   exists, config, written, printed>>

\* line 99-103: one buildTypes ref
MapBuildType ==
    /\ pc = "map" /\ InLoop(stack, 1)
    /\ Take(StepRef(heap, stack, objects))

\* line 105-110: one subProjects ref
MapSubProject ==
    /\ pc = "map" /\ InLoop(stack, 2)
    /\ Take(StepSubProject(heap, stack, objects))

\* line 112-116: one vcsRoots ref
MapVcsRoot ==
    /\ pc = "map" /\ InLoop(stack, 3)
    /\ Take(StepRef(heap, stack, objects))

\* lines 104, 111: from one for loop to the next
MapNextLoop ==
    /\ pc = "map" /\ LoopOver(stack) /\ Top(stack).loop < 3
    /\ Take(StepNextLoop(heap, stack))

\* the end of map_project's body
MapReturn ==
    /\ pc = "map" /\ LoopOver(stack) /\ Top(stack).loop = 3
    /\ Take(StepReturn(heap, stack))

Next == MapBuildType \/ MapSubProject \/ MapVcsRoot \/ MapNextLoop \/ MapReturn

Spec == Init /\ [][Next]_vars

\* the interpreter runs the program on: no step waits for ever
SpecFair == Spec /\ WF_vars(Next)

\* the elements of a list
Range(q) == {q[i] : i \in 1..Len(q)}

ListFields == {"buildTypes", "subProjects", "vcsRoots"}

\* the ref dicts in the lists of dict d
RefsIn(d) == UNION {Range(d[f]) : f \in DOMAIN d \cap ListFields}

\* the ref dicts of the heap: every dict but the root
RefAddrs == {a \in 1..Len(heap0) : "id" \in DOMAIN heap0[a]}

RECURSIVE Expanded(_)
\* the projects of the tree: P, the registered sub-project refs of the
\* projects of P, and so on
Expanded(P) ==
    LET N == P \cup {a \in UNION {Range(LoopList(heap[q], "subProjects")) : q \in P} :
                        heap0[a].id \in DOMAIN objects}
    IN IF N = P THEN P ELSE Expanded(N)

\* the refs at the root or inside an expanded sub-project
TreeRefs == UNION {RefsIn(heap[q]) : q \in Expanded({root})}

\* the registered names that name n refers to as sub-projects
SubProjectsOf(n) ==
    {heap0[a].id : a \in Range(LoopList(objects[n], "subProjects"))} \cap DOMAIN objects

RECURSIVE NamesFrom(_)
\* the names reached from those of S through sub-project references
NamesFrom(S) ==
    LET N == S \cup UNION {SubProjectsOf(n) : n \in S}
    IN IF N = S THEN S ELSE NamesFrom(N)

\* no registered record reaches itself through sub-project references
Acyclic == \A n \in DOMAIN objects : n \notin NamesFrom(SubProjectsOf(n))

\* a record that reaches itself is reached from the root
CycleInTree ==
    \E n \in NamesFrom({heap0[a].id : a \in Range(LoopList(heap0[root], "subProjects"))}
                       \cap DOMAIN objects) :
        n \in NamesFrom(SubProjectsOf(n))

\* C2: when tree assembly is over, every ref whose id is not a key of the
\* registry is still the one-field record {id: ...}; and no such ref is ever
\* descended into.
C2_UnregisteredStayBare ==
    /\ pc = "returned" =>
          \A a \in RefAddrs :
              heap0[a].id \notin DOMAIN objects => heap[a] = [id |-> heap0[a].id]
    /\ \A i \in 1..Len(stack) :
          stack[i].proj = root \/ heap0[stack[i].proj].id \in DOMAIN objects

\* an unregistered ref lies inside an expanded sub-project, next to a merged one
C2_Witness ==
    /\ pc = "returned"
    /\ \E q \in Expanded({root}) \ {root} :
       \E a, b \in RefsIn(heap[q]) :
          /\ heap0[a].id \notin DOMAIN objects
          /\ heap0[b].id \in DOMAIN objects
          /\ heap[b] # heap0[b]

\* C7: when tree assembly is over on an acyclic registry, every ref at the
\* root or inside an expanded sub-project, at any depth, whose id is
\* registered holds every field of the registered record with its value.
C7_MergedAtEveryDepth ==
    (pc = "returned" /\ Acyclic) =>
        \A a \in TreeRefs :
            heap0[a].id \in DOMAIN objects =>
                \A f \in DOMAIN objects[heap0[a].id] :
                    f \in DOMAIN heap[a] /\ heap[a][f] = objects[heap0[a].id][f]

\* a ref two sub-projects deep was merged with a record that has fields
C7_Witness ==
    /\ pc = "returned"
    /\ Acyclic
    /\ \E q \in Expanded({root}) : \E r \in Expanded({root}) :
          /\ q # root
          /\ r \in Range(LoopList(heap[q], "subProjects"))
          /\ \E a \in RefsIn(heap[r]) :
                /\ heap0[a].id \in DOMAIN objects
                /\ DOMAIN objects[heap0[a].id] # {}
                /\ heap[a] # heap0[a]

\* C8 as stated, on the well-formed (acyclic) registries: during tree
\* assembly every registered record, the refs in its lists included, is as it
\* was when the registry was complete.
C8_RegistryReadOnly ==
    Acyclic => \A n \in DOMAIN objects : \A a \in RefsIn(objects[n]) : heap[a] = heap0[a]

\* C9: on an acyclic registry map_project returns; a cycle that the tree
\* reaches is not guarded against and ends in RecursionError.
C9_Terminates ==
    /\ Acyclic ~> (pc = "returned")
    /\ CycleInTree ~> (pc = "RecursionError")

\* on an acyclic registry map_project is three activations deep
C9_Witness ==
    /\ Acyclic
    /\ pc = "map"
    /\ Len(stack) >= 3

\* C10: no registered record has a field id, and in every state of tree
\* assembly every ref's id is the identifier of its reference in the text.
C10_IdsKept ==
    /\ \A n \in DOMAIN objects : "id" \notin DOMAIN objects[n]
    /\ \A a \in RefAddrs : "id" \in DOMAIN heap[a] /\ heap[a].id = heap0[a].id

\* a ref was merged with the record of a declaration whose body has a field id
C10_Witness ==
    /\ pc = "returned"
    /\ \E a \in RefAddrs :
          /\ heap[a] # heap0[a]
          /\ heap[a].id = heap0[a].id
          /\ \E i \in 1..Len(content) :
                /\ content[i].k = "object" /\ content[i].v = heap0[a].id
                /\ i < Len(content) /\ content[i + 1].k = "name" /\ content[i + 2].k = "id"

----------------------------------------------------------------------------
(* Specification SpecMain: main (lines 409-433) with parse_kotlin_dsl, on    *)
(* every short text and with settings.kts present or not.                  *)

MainChunks ==
    {<<Kw("project"), LB>>, <<RB>>, <<Field("version", "2024.03")>>,
     <<Field("description", "d")>>, <<Ref("subProject", "A")>>,
     <<Obj("A", "Project"), Field("name", "n")>>}

InitMain ==
    /\ \/ /\ exists = TRUE
          /\ \E cs \in SeqsUpTo(MainChunks, MaxMain) : content = Flatten(cs)
       \/ /\ exists = FALSE
          /\ content = <<>>
    /\ pc = "main"
    /\ config = None
    /\ written = None
    /\ printed = <<>>
    /\ objects = EmptyDict
    /\ heap = <<>>
    /\ heap0 = <<>>
    /\ root = 0
    /\ stack = <<>>
    /\ pos = 0
    /\ start = 0
    /\ block = <<>>
    /\ steps = <<>>

\* lines 413-415
MainMissing ==
    /\ pc = "main"
    /\ ~exists
    /\ printed' = <<"settings.kts not found">>
    /\ pc' = "exit"
    /\ UNCHANGED <<content, start, block, steps, objects, heap, pos, root, stack,
                   heap0, exists, config, written>>

\* line 417 and lines 26-77 of parse_kotlin_dsl: None is returned, or the
\* root dict is built
ParseProject ==
    /\ pc = "main"
    /\ exists
    /\ \E r \in {ParseRoot(content, heap)} :
          IF r.ok
          THEN /\ heap' = r.heap
               /\ root' = r.root
               /\ pc' = "objects"
          ELSE /\ pc' = "parsed"
               /\ UNCHANGED <<heap, root>>
    /\ UNCHANGED <<content, start, block, steps, objects, pos, stack, heap0,
                   exists, config, written, printed>>

\* lines 79-119 of parse_kotlin_dsl: the registry, the tree, and the return
\* of the document to main; a RecursionError is caught by nobody
ParseObjects ==
    /\ pc = "objects"
    /\ \E o \in {BuildObjects(EmptyDict, heap, content, 1)} :
       \E s \in {RunMap(o.heap, <<Call(o.heap, root)>>, o.objects)} :
          /\ objects' = o.objects
          /\ heap0' = o.heap
          /\ heap' = s.heap
          /\ stack' = s.stack
          /\ IF s.pc = "returned"
             THEN /\ config' = [version |-> VersionOf(content), project |-> root]
                  /\ pc' = "parsed"
             ELSE /\ config' = config
                  /\ pc' = s.pc
    /\ UNCHANGED <<content, start, block, steps, pos, root, exists, written, printed>>

\* Python's truth value of config
Truthy(c) == c # None /\ DOMAIN c # {}

RECURSIVE DictsFrom(_, _)
\* the ref dicts reached from those of S
DictsFrom(h, S) ==
    LET N == S \cup UNION {RefsIn(h[a]) : a \in S}
    IN IF N = S THEN S ELSE DictsFrom(h, N)

\* the dict at address a holds a dict that holds itself: json refuses it
Circular(h, a) ==
    \E b \in DictsFrom(h, {a}) : b \in DictsFrom(h, RefsIn(h[b]))

\* lines 418-431: the document is written, as YAML when yaml can be imported
\* and as JSON otherwise, and echoed; json raises ValueError on a circular
\* document, yaml does not
MainWrite ==
    /\ pc = "parsed"
    /\ Truthy(config)
    /\ \E yaml \in BOOLEAN :
          IF yaml
          THEN /\ written' = [file |-> "teamcity.yaml", doc |-> config]
               /\ IF Circular(heap, root)
                  THEN /\ printed' = <<"Converted to teamcity.yaml", "Output structure:">>
                       /\ pc' = "ValueError"
                  ELSE /\ printed' = <<"Converted to teamcity.yaml", "Output structure:",
                                       "config">>
                       /\ pc' = "exit"
          ELSE IF Circular(heap, root)
          THEN /\ written' = [file |-> "teamcity.json", doc |-> [partial |-> TRUE]]
               /\ printed' = <<>>
               /\ pc' = "ValueError"
          ELSE /\ written' = [file |-> "teamcity.json", doc |-> config]
               /\ printed' = <<"Converted to teamcity.json (install PyYAML for YAML output)",
                               "Output structure:", "config">>
               /\ pc' = "exit"
    /\ UNCHANGED <<content, start, block, steps, objects, heap, pos, root, stack,
                   heap0, exists, config>>

\* lines 432-433
MainFail ==
    /\ pc = "parsed"
    /\ ~Truthy(config)
    /\ printed' = <<"Failed to parse">>
    /\ pc' = "exit"
    /\ UNCHANGED <<content, start, block, steps, objects, heap, pos, root, stack,
                   heap0, exists, config, written>>

NextMain == MainMissing \/ ParseProject \/ ParseObjects \/ MainWrite \/ MainFail

SpecMain == InitMain /\ [][NextMain]_vars

\* the text has no project { or the brace of its first project { is not closed
RootFails(text) ==
    \/ Openers(text, "project") = {}
    \/ Closings(text, Min(Openers(text, "project")) + 1) = {}

\* C4: when the text has no root block or its brace is never closed,
\* parse_kotlin_dsl returns None without building the registry or the tree,
\* main prints the failure message and writes no file; a file is written only
\* when parsing returned a document.
C4_NoRootNoOutput ==
    /\ [][(pc = "main" /\ exists /\ RootFails(content)) =>
             /\ pc' = "parsed"
             /\ config' = None
             /\ UNCHANGED <<objects, heap, heap0, root, stack>>]_vars
    /\ []((pc = "exit" /\ exists /\ RootFails(content)) =>
             /\ printed = <<"Failed to parse">>
             /\ written = None)
    /\ [](written # None =>
             /\ config # None
             /\ DOMAIN config = {"version", "project"}
             /\ ~RootFails(content))

\* the root block was opened and never closed, and main reported the failure
C4_Witness ==
    /\ pc = "exit"
    /\ exists
    /\ Openers(content, "project") # {}
    /\ RootFails(content)
    /\ printed = <<"Failed to parse">>
    /\ written = None

\* C6 as stated, for the fields of the document: a field whose pattern does
\* not occur in the searched text (version in the whole text, description in
\* the root block) is absent from the document.
C6_AbsentWhenNoMatch ==
    (pc = "exit" /\ config # None) =>
        /\ (\A i \in 1..Len(content) : ~Quoted(content[i], "version"))
              => "version" \notin DOMAIN config
        /\ (\A i \in 1..Len(RootBlock(content)) :
                ~Quoted(RootBlock(content)[i], "description"))
              => "description" \notin DOMAIN heap[root]

====
